---- MODULE Spec2Model ----
(***************************************************************************)
(* Model of the Visualizer class of src/src/visualizer.js: the render-mode *)
(* state machine (setType), the canvas replacement (recreateCanvas), the   *)
(* butterchurn adapter (initButterchurn, createButterchurnInstance,        *)
(* loadPreset), the preset auto-rotation timer (startAutoRotate,           *)
(* stopAutoRotate) and the per-frame dispatch (draw).                      *)
(*                                                                         *)
(* The object's fields are the variables.  The methods are operators from  *)
(* an object record to an object record, composed as the methods call one  *)
(* another; an action gathers the variables into a record, applies the     *)
(* method, and scatters the result.  The record also carries the browser's *)
(* table of active interval timers and the log of the calls the method     *)
(* made on its collaborators.                                              *)
(***************************************************************************)
EXTENDS Integers, Sequences, FiniteSets, TLC

VARIABLES
    type,                  \* this.type
    canvas,                \* this.canvas: [id, width, height, contextType]
    ctx,                   \* this.ctx: Null or <<[canvas |-> id, shadowBlur |-> n]>>
    width,                 \* this.width
    height,                \* this.height
    colorScheme,           \* this.colorScheme
    audioContext,          \* this.audioContext ("null" or a context)
    butterchurnAudioNode,  \* this.butterchurnAudioNode ("null" or a node)
    butterchurnVisualizer, \* this.butterchurnVisualizer: Null or <<engine>>
    currentPresetIndex,    \* this.currentPresetIndex (0-based)
    autoRotateInterval,    \* this.autoRotateInterval (0 is null)
    isAutoRotating,        \* this.isAutoRotating
    timers,                \* the browser's active interval timers: id -> ms since (re)armed
    log,                   \* calls made on collaborators by the last operation
    lastCall,              \* the last operation invoked on the object
    recreations,           \* history: number of recreateCanvas calls so far
    classChanges,          \* history: setType calls whose old and new class differ
    stopped,               \* history: clear() or a switch to 2D since the last startAutoRotate
    pinned,                \* history: the last setPreset named a concrete preset
    pinnedId,              \* history: the catalog key the last setPreset named, if it named one
                           \*   (NotRecorded where no property reads it)
    sinceAuto,             \* history: since a setPreset("auto") with no call after it:
                           \*   [elapsed ms, loadPreset calls, a timer was running before]
    query,                 \* the arguments [index, total, intensity] getColor is asked with
    frame,                 \* history: the dataArray of the draw call just made
    app                    \* the host driver's variables (src/src/app.js) and the browser
                           \*   objects it holds: see AppStart

vars == <<type, canvas, ctx, width, height, colorScheme, audioContext,
          butterchurnAudioNode, butterchurnVisualizer, currentPresetIndex,
          autoRotateInterval, isAutoRotating, timers, log, lastCall,
          recreations, classChanges, stopped, pinned, pinnedId, sinceAuto,
          query, frame, app>>

----------------------------------------------------------------------------
(* Bounds of the model *)

\* number of keys of the preset catalog
NumPresets == 2
\* largest number of canvas replacements explored
MaxRecreate == 3
\* time advances in steps of ROTATE_MS \div StepsPerInterval
StepsPerInterval == 2
\* largest bufferLength passed to draw
MaxLen == 2
\* largest total (number of columns) passed to getColor
MaxTotal == 3
\* largest number of startVisualization calls explored
MaxStarts == 3
\* largest number of files uploaded
MaxUploads == 2

(* Program constants *)

\* the setInterval period of startAutoRotate
ROTATE_MS == 15000
\* the blend time passed to the engine's loadPreset
BLEND_S == 2
\* the selection 'auto' of setPreset (preset names are numbers in the model)
AUTO == 0
\* the divisor that turns a sample into an intensity
SAMPLE_MAX == 255

----------------------------------------------------------------------------
(* Values *)

Null == << >>
IsNull(x) == x = << >>
Obj(x) == x[1]

MILKDROP == "milkdrop"
Modes2D == {"bars", "oscilloscope", "spectrum", "circular"}
\* a value no case of draw's switch names
UnknownType == "waveform"
Types == Modes2D \cup {MILKDROP, UnknownType}

Schemes == {"classic", "fire", "ocean", "rainbow", "neon"}
UnknownScheme == "sepia"

\* Object.keys(this.presets), 0-based; the keys are 1..NumPresets
presetKeys == [i \in 0..(NumPresets - 1) |-> i + 1]
PresetNames == {presetKeys[i] : i \in DOMAIN presetKeys}
\* a name that is neither 'auto' nor a key of the catalog
UnknownPreset == NumPresets + 1
\* a name that is no key of the catalog but that the catalog, an object,
\* inherits from Object.prototype (such as 'constructor')
InheritedPreset == NumPresets + 2
\* this.presets[name] is truthy
HasPreset(name) == name \in PresetNames \cup {InheritedPreset}
\* the engine shows no preset yet
NoPreset == 0 - 1

\* window.innerWidth, window.innerHeight
WindowSizes == {<<4, 2>>, <<6, 4>>}

\* the driver's audio contexts with the source node created from each
AudioPairs == {<<"ac1", "node1">>, <<"ac2", "node2">>}

\* where the initialisation of the engine throws, if it does (a failure is drawn
\* only where the initialisation is attempted)
Failures == {"none", "create", "load", "connect"}

StepMs == ROTATE_MS \div StepsPerInterval

Ev(e, a) == [e |-> e, a |-> a]

----------------------------------------------------------------------------
(* The object as a record, and the methods of Visualizer *)

Self ==
    [type |-> type, canvas |-> canvas, ctx |-> ctx, width |-> width,
     height |-> height, colorScheme |-> colorScheme,
     audioContext |-> audioContext,
     butterchurnAudioNode |-> butterchurnAudioNode,
     butterchurnVisualizer |-> butterchurnVisualizer,
     currentPresetIndex |-> currentPresetIndex,
     autoRotateInterval |-> autoRotateInterval,
     isAutoRotating |-> isAutoRotating,
     timers |-> timers, log |-> << >>, recreations |-> recreations]

Logged(s, e, a) == [s EXCEPT !.log = Append(@, Ev(e, a))]

\* setInterval: the handle is a positive integer not in the map of active timers
setInterval(s) ==
    LET id == CHOOSE n \in 1..(Cardinality(DOMAIN s.timers) + 1) :
                  /\ n \notin DOMAIN s.timers
                  /\ \A m \in 1..(n - 1) : m \in DOMAIN s.timers
    IN  [Logged(s, "setInterval", id) EXCEPT
            !.timers = [t \in (DOMAIN s.timers) \cup {id} |->
                           IF t = id THEN 0 ELSE s.timers[t]],
            !.autoRotateInterval = id]

\* clearInterval(id): an id that is not active is ignored
clearInterval(s, id) ==
    [Logged(s, "clearInterval", id) EXCEPT
        !.timers = [t \in (DOMAIN s.timers) \ {id} |-> s.timers[t]]]

stopAutoRotate(s) ==
    IF s.autoRotateInterval # 0
    THEN [clearInterval(s, s.autoRotateInterval) EXCEPT !.autoRotateInterval = 0]
    ELSE s

\* faulty variant: the running timer is not cancelled before a new one is armed
startAutoRotate_NoStop(s) == setInterval(s)

startAutoRotate(s) == setInterval(stopAutoRotate(s))

loadPreset(s, presetName) ==
    LET called == Logged(s, "loadPreset", presetName)
    IN  IF ~IsNull(s.butterchurnVisualizer) /\ HasPreset(presetName)
        THEN Logged(
                 [Logged(called, "engine.loadPreset", presetName) EXCEPT
                     !.butterchurnVisualizer =
                         <<[Obj(@) EXCEPT !.preset = presetName, !.blend = BLEND_S]>>],
                 "onPresetChange", presetName)
        ELSE called

\* faulty variant: a tick never selects the index selected last
rotateTick_NoRepeat(s, r) ==
    LET next == IF r = s.currentPresetIndex THEN (r + 1) % NumPresets ELSE r
    IN  loadPreset([s EXCEPT !.currentPresetIndex = next], presetKeys[next])

\* the callback startAutoRotate passes to setInterval; r is the random index
rotateTick(s, r) ==
    loadPreset([s EXCEPT !.currentPresetIndex = r], presetKeys[r])

\* faulty variant: the new size is not passed on to the engine
resizeCanvas_NoPropagate(s, w, h) ==
    [s EXCEPT !.width = w, !.height = h, !.canvas.width = w, !.canvas.height = h]

resizeCanvas(s, w, h) ==
    LET sized == [s EXCEPT !.width = w, !.height = h,
                           !.canvas.width = w, !.canvas.height = h]
    IN  IF ~IsNull(s.butterchurnVisualizer)
        THEN [Logged(sized, "setRendererSize", w) EXCEPT
                 !.butterchurnVisualizer =
                     <<[Obj(@) EXCEPT !.width = w, !.height = h]>>]
        ELSE sized

\* faulty variant: clear fills the 2D context without testing that there is one
clear_NoGuard(s) ==
    IF IsNull(s.ctx) THEN Logged(s, "TypeError", 0)
    ELSE stopAutoRotate(Logged(s, "fillRect", Obj(s.ctx).canvas))

\* faulty variant: clear leaves the rotation timer running
clear_NoStop(s) ==
    IF ~IsNull(s.ctx) THEN Logged(s, "fillRect", Obj(s.ctx).canvas) ELSE s

clear(s) ==
    stopAutoRotate(IF ~IsNull(s.ctx) THEN Logged(s, "fillRect", Obj(s.ctx).canvas)
                                      ELSE s)

\* faulty variant: the engine of the discarded canvas is kept
recreateCanvas_KeepEngine(s) ==
    [Logged(s, "replaceChild", s.canvas.id + 1) EXCEPT
        !.canvas = [id |-> s.canvas.id + 1, width |-> s.width,
                    height |-> s.height, contextType |-> "none"],
        !.ctx = Null,
        !.recreations = @ + 1]

recreateCanvas(s) ==
    [Logged(s, "replaceChild", s.canvas.id + 1) EXCEPT
        !.canvas = [id |-> s.canvas.id + 1, width |-> s.width,
                    height |-> s.height, contextType |-> "none"],
        !.ctx = Null,
        !.butterchurnVisualizer = Null,
        !.recreations = @ + 1]

\* canvas.getContext('2d'): null when the canvas already has another context type
getContext2d(s) ==
    IF s.canvas.contextType \in {"none", "2d"}
    THEN [s EXCEPT !.canvas.contextType = "2d",
                   !.ctx = <<[canvas |-> s.canvas.id, shadowBlur |-> 0]>>]
    ELSE [s EXCEPT !.ctx = Null]

\* faulty variant: rotation starts with every new engine, whatever isAutoRotating says
createButterchurnInstance_AlwaysRotate(s, fail) ==
    IF ~IsNull(s.butterchurnVisualizer) THEN s
    ELSE IF fail = "create" THEN Logged(s, "console.error", 0)
    ELSE
      LET created ==
            [Logged(s, "createVisualizer", s.canvas.id) EXCEPT
               !.canvas.contextType = "webgl",
               !.butterchurnVisualizer =
                   <<[canvas |-> s.canvas.id, audioContext |-> s.audioContext,
                      audioNode |-> "null", preset |-> NoPreset, blend |-> 0,
                      width |-> s.width, height |-> s.height]>>]
          loaded == loadPreset(created, presetKeys[s.currentPresetIndex])
          connected ==
            IF loaded.butterchurnAudioNode # "null"
            THEN [Logged(loaded, "connectAudio", 0) EXCEPT
                    !.butterchurnVisualizer =
                        <<[Obj(@) EXCEPT !.audioNode = loaded.butterchurnAudioNode]>>]
            ELSE loaded
      IN  IF fail = "load" THEN Logged(created, "console.error", 0)
          ELSE IF fail = "connect" /\ loaded.butterchurnAudioNode # "null"
               THEN Logged(loaded, "console.error", 0)
          ELSE startAutoRotate(connected)

\* fail says where the body of the try block throws, if it does
createButterchurnInstance(s, fail) ==
    IF ~IsNull(s.butterchurnVisualizer) THEN s
    ELSE IF fail = "create" THEN Logged(s, "console.error", 0)
    ELSE
      LET created ==
            [Logged(s, "createVisualizer", s.canvas.id) EXCEPT
               !.canvas.contextType = "webgl",
               !.butterchurnVisualizer =
                   <<[canvas |-> s.canvas.id, audioContext |-> s.audioContext,
                      audioNode |-> "null", preset |-> NoPreset, blend |-> 0,
                      width |-> s.width, height |-> s.height]>>]
          loaded == loadPreset(created, presetKeys[s.currentPresetIndex])
          connected ==
            IF loaded.butterchurnAudioNode # "null"
            THEN [Logged(loaded, "connectAudio", 0) EXCEPT
                    !.butterchurnVisualizer =
                        <<[Obj(@) EXCEPT !.audioNode = loaded.butterchurnAudioNode]>>]
            ELSE loaded
      IN  IF fail = "load" THEN Logged(created, "console.error", 0)
          ELSE IF fail = "connect" /\ loaded.butterchurnAudioNode # "null"
               THEN Logged(loaded, "console.error", 0)
          ELSE IF connected.isAutoRotating THEN startAutoRotate(connected)
          ELSE connected

\* faulty variant: the engine is created in whatever mode the audio is bound
initButterchurn_AnyMode(s, ac, node, fail) ==
    createButterchurnInstance(
        [s EXCEPT !.audioContext = ac, !.butterchurnAudioNode = node], fail)

initButterchurn(s, ac, node, fail) ==
    LET bound == [s EXCEPT !.audioContext = ac, !.butterchurnAudioNode = node]
    IN  IF bound.type = MILKDROP THEN createButterchurnInstance(bound, fail)
        ELSE bound

\* faulty variant: pinning a preset leaves the running timer alone
setPreset_KeepTimer(s, presetName) ==
    IF presetName = AUTO
    THEN startAutoRotate([s EXCEPT !.isAutoRotating = TRUE])
    ELSE loadPreset([s EXCEPT !.isAutoRotating = FALSE], presetName)

setPreset(s, presetName) ==
    IF presetName = AUTO
    THEN startAutoRotate([s EXCEPT !.isAutoRotating = TRUE])
    ELSE loadPreset(stopAutoRotate([s EXCEPT !.isAutoRotating = FALSE]), presetName)

\* faulty variant: the canvas is replaced whenever the type changes
setType_OnEveryChange(s, t, fail) ==
    LET oldType == s.type
        typed == [s EXCEPT !.type = t]
        isWebgl == t = MILKDROP
    IN  IF t # oldType
        THEN LET fresh == recreateCanvas(typed)
             IN  IF isWebgl
                 THEN IF fresh.audioContext # "null"
                      THEN createButterchurnInstance(fresh, fail)
                      ELSE fresh
                 ELSE getContext2d(stopAutoRotate(fresh))
        ELSE typed

\* faulty variant: the canvas is replaced on every call
setType_NoCompare(s, t, fail) ==
    LET typed == [s EXCEPT !.type = t]
        isWebgl == t = MILKDROP
        fresh == recreateCanvas(typed)
    IN  IF isWebgl
        THEN IF fresh.audioContext # "null"
             THEN createButterchurnInstance(fresh, fail)
             ELSE fresh
        ELSE getContext2d(stopAutoRotate(fresh))

\* faulty variant: a value that names no mode is ignored
setType_RejectUnknown(s, t, fail) ==
    LET typed == [s EXCEPT !.type = t]
        isWebgl == t = MILKDROP
        wasWebgl == s.type = MILKDROP
    IN  IF t \notin Modes2D \cup {MILKDROP} THEN s
        ELSE IF isWebgl # wasWebgl
        THEN LET fresh == recreateCanvas(typed)
             IN  IF isWebgl
                 THEN IF fresh.audioContext # "null"
                      THEN createButterchurnInstance(fresh, fail)
                      ELSE fresh
                 ELSE getContext2d(stopAutoRotate(fresh))
        ELSE typed

\* faulty variant: the 2D context is acquired for the four named 2D modes only
setType_ContextForKnown(s, t, fail) ==
    LET oldType == s.type
        typed == [s EXCEPT !.type = t]
        isWebgl == t = MILKDROP
        wasWebgl == oldType = MILKDROP
    IN  IF isWebgl # wasWebgl
        THEN LET fresh == recreateCanvas(typed)
             IN  IF isWebgl
                 THEN IF fresh.audioContext # "null"
                      THEN createButterchurnInstance(fresh, fail)
                      ELSE fresh
                 ELSE IF t \in Modes2D
                      THEN getContext2d(stopAutoRotate(fresh))
                      ELSE stopAutoRotate(fresh)
        ELSE typed

\* faulty variant: on the way to a 2D mode the timer is stopped before the
\* canvas is replaced
setType_StopFirst(s, t, fail) ==
    LET oldType == s.type
        typed == [s EXCEPT !.type = t]
        isWebgl == t = MILKDROP
        wasWebgl == oldType = MILKDROP
    IN  IF isWebgl # wasWebgl
        THEN IF isWebgl
             THEN LET fresh == recreateCanvas(typed)
                  IN  IF fresh.audioContext # "null"
                      THEN createButterchurnInstance(fresh, fail)
                      ELSE fresh
             ELSE getContext2d(recreateCanvas(stopAutoRotate(typed)))
        ELSE typed

setType(s, t, fail) ==
    LET oldType == s.type
        typed == [s EXCEPT !.type = t]
        isWebgl == t = MILKDROP
        wasWebgl == oldType = MILKDROP
    IN  IF isWebgl # wasWebgl
        THEN LET fresh == recreateCanvas(typed)
             IN  IF isWebgl
                 THEN IF fresh.audioContext # "null"
                      THEN createButterchurnInstance(fresh, fail)
                      ELSE fresh
                 ELSE getContext2d(stopAutoRotate(fresh))
        ELSE typed

\* faulty variant: the scheme is not stored
setColorScheme_Ignored(s, scheme) == s

setColorScheme(s, scheme) == [s EXCEPT !.colorScheme = scheme]

----------------------------------------------------------------------------
(* getColor.  An intensity is the double nearest num/den; the intensities   *)
(* the renderers pass are sample/255, 1, 0.3 and (sample/255)*0.3.          *)

Intensity(num, den) == [num |-> num, den |-> den]
\* dataArray[i] / 255
SampleIntensity(sample) == Intensity(sample, SAMPLE_MAX)
FullIntensity == Intensity(1, 1)

\* <<num, den, a, b>> for which the double a + (num/den)*b falls just below the
\* integer the exact value reaches, so that Math.floor gives one less
\* (IEEE 754 binary64, samples 0..255)
DoubleShort ==
    {<<187, 255, 0, 150>>,
     <<255, 2550, 0, 150>>, <<357, 2550, 0, 200>>, <<357, 2550, 0, 100>>,
     <<357, 2550, 0, 150>>, <<510, 2550, 0, 150>>, <<561, 2550, 0, 200>>,
     <<561, 2550, 0, 100>>, <<561, 2550, 0, 150>>, <<714, 2550, 0, 200>>,
     <<714, 2550, 0, 100>>, <<714, 2550, 0, 150>>}

\* Math.floor(a + intensity * b)
FloorAffine(a, b, i) ==
    ((a * i.den + b * i.num) \div i.den)
        - (IF <<i.num, i.den, a, b>> \in DoubleShort THEN 1 ELSE 0)

\* the string `rgb(r, g, b)`
Rgb(r, g, b) == [kind |-> "rgb", v |-> <<r, g, b>>]
\* the string `hsl(hue, 100%, lightness%)`, hue and lightness as fractions
Hsl(hueNum, hueDen, lightNum, lightDen) ==
    [kind |-> "hsl", v |-> <<hueNum, hueDen, 100, lightNum, lightDen>>]

\* schemes is an object literal, so schemes[name] also finds what the literal
\* inherits from Object.prototype: methods, which the call then runs with the
\* literal as receiver (toString gives "[object Object]", constructor a new
\* empty object), and __proto__, an object that cannot be called
PrototypeMethods == {"toString", "constructor"}
PrototypeObjects == {"__proto__"}
Inherited(name) == [kind |-> "inherited", v |-> <<name>>]
NotAFunction == [kind |-> "TypeError", v |-> << >>]

classicColor(i) == Rgb(0, FloorAffine(0, 150, i), FloorAffine(100, 155, i))

\* faulty variant: fire's red channel gets the blue coefficient of classic
getColor_FireOverflow(s, index, total, intensity) ==
    CASE s.colorScheme = "classic" -> classicColor(intensity)
      [] s.colorScheme = "fire" ->
            Rgb(FloorAffine(200, 155, intensity), FloorAffine(0, 100, intensity), 0)
      [] s.colorScheme = "ocean" ->
            Rgb(0, FloorAffine(0, 200, intensity), FloorAffine(150, 105, intensity))
      [] s.colorScheme = "rainbow" ->
            Hsl(index * 360, total, 50 * intensity.den + intensity.num * 20,
                intensity.den)
      [] s.colorScheme = "neon" ->
            Rgb(0, FloorAffine(200, 55, intensity), FloorAffine(0, 100, intensity))
      [] s.colorScheme \in PrototypeMethods -> Inherited(s.colorScheme)
      [] s.colorScheme \in PrototypeObjects -> NotAFunction
      [] OTHER -> classicColor(intensity)

\* faulty variant: the rainbow hue runs backwards
getColor_HueReversed(s, index, total, intensity) ==
    CASE s.colorScheme = "classic" -> classicColor(intensity)
      [] s.colorScheme = "fire" ->
            Rgb(FloorAffine(200, 55, intensity), FloorAffine(0, 100, intensity), 0)
      [] s.colorScheme = "ocean" ->
            Rgb(0, FloorAffine(0, 200, intensity), FloorAffine(150, 105, intensity))
      [] s.colorScheme = "rainbow" ->
            Hsl((total - 1 - index) * 360, total,
                50 * intensity.den + intensity.num * 20, intensity.den)
      [] s.colorScheme = "neon" ->
            Rgb(0, FloorAffine(200, 55, intensity), FloorAffine(0, 100, intensity))
      [] s.colorScheme \in PrototypeMethods -> Inherited(s.colorScheme)
      [] s.colorScheme \in PrototypeObjects -> NotAFunction
      [] OTHER -> classicColor(intensity)

\* faulty variant: neon's channels are those of ocean
getColor_NeonAsOcean(s, index, total, intensity) ==
    CASE s.colorScheme = "classic" -> classicColor(intensity)
      [] s.colorScheme = "fire" ->
            Rgb(FloorAffine(200, 55, intensity), FloorAffine(0, 100, intensity), 0)
      [] s.colorScheme = "rainbow" ->
            Hsl(index * 360, total, 50 * intensity.den + intensity.num * 20,
                intensity.den)
      [] s.colorScheme \in {"ocean", "neon"} ->
            Rgb(0, FloorAffine(0, 200, intensity), FloorAffine(150, 105, intensity))
      [] s.colorScheme \in PrototypeMethods -> Inherited(s.colorScheme)
      [] s.colorScheme \in PrototypeObjects -> NotAFunction
      [] OTHER -> classicColor(intensity)

getColor(s, index, total, intensity) ==
    CASE s.colorScheme = "classic" -> classicColor(intensity)
      [] s.colorScheme = "fire" ->
            Rgb(FloorAffine(200, 55, intensity), FloorAffine(0, 100, intensity), 0)
      [] s.colorScheme = "ocean" ->
            Rgb(0, FloorAffine(0, 200, intensity), FloorAffine(150, 105, intensity))
      [] s.colorScheme = "rainbow" ->
            Hsl(index * 360, total, 50 * intensity.den + intensity.num * 20,
                intensity.den)
      [] s.colorScheme = "neon" ->
            Rgb(0, FloorAffine(200, 55, intensity), FloorAffine(0, 100, intensity))
      [] s.colorScheme \in PrototypeMethods -> Inherited(s.colorScheme)
      [] s.colorScheme \in PrototypeObjects -> NotAFunction
      [] OTHER -> classicColor(intensity)

----------------------------------------------------------------------------
(* draw and the four renderers.  dataArray is [defined, data]; bufferLength *)
(* is a number, or Undefined when the argument is absent.                   *)

Undefined == 0 - 1
Absent == [defined |-> FALSE, data |-> << >>]
Buffer(d) == [defined |-> TRUE, data |-> d]

\* dataArray[i]: a sample, or NaN (-1 here) past the end of the array
SampleAt(dataArray, i) ==
    IF i < Len(dataArray.data) THEN dataArray.data[i + 1] ELSE Undefined

\* intensity * 0.3 for intensity = sample / 255
DimIntensity(sample) == Intensity(3 * sample, 10 * SAMPLE_MAX)

\* the assignment of a colour getColor returned to a property of the context
Painted(s, property, color) ==
    IF color = NotAFunction THEN Logged(s, "TypeError", 0)
    ELSE Logged(s, property, color)

\* the colours one iteration of a renderer's loop asks getColor for
SampleColors(s, renderer, bufferLength, i, sample) ==
    CASE renderer \in {"drawBars", "drawCircular"} ->
            <<getColor(s, i, bufferLength, SampleIntensity(sample))>>
      [] renderer = "drawSpectrum" ->
            <<getColor(s, i, bufferLength, FullIntensity),
              getColor(s, i, bufferLength, Intensity(3, 10)),
              getColor(s, i, bufferLength, DimIntensity(sample))>>
      [] OTHER -> << >>

\* a length or coordinate in pixels, as a ratio
Rat(num, den) == [num |-> num, den |-> den]
Min(a, b) == IF a <= b THEN a ELSE b

\* the shadowBlur of the 2D context, which stays from one call to the next
Blur(s) == Obj(s.ctx).shadowBlur
WithBlur(s, b) == [s EXCEPT !.ctx = <<[Obj(@) EXCEPT !.shadowBlur = b]>>]

\* fillRect(x, y, w, h)
Rect(x, y, w, h) == [kind |-> "rect", x |-> x, y |-> y, w |-> w, h |-> h]

\* faulty variant: the bar hangs from the top edge
BarRect_FromTop(s, bufferLength, i, sample) ==
    Rect(Rat(i * (s.width + bufferLength), bufferLength),
         Rat(0, 1),
         Rat(s.width, bufferLength),
         Rat(sample * s.height, SAMPLE_MAX))

\* drawBars: barWidth = width / bufferLength, x advances by barWidth + 1,
\* fillRect(x, height - barHeight, barWidth, barHeight)
BarRect(s, bufferLength, i, sample) ==
    Rect(Rat(i * (s.width + bufferLength), bufferLength),
         Rat((SAMPLE_MAX - sample) * s.height, SAMPLE_MAX),
         Rat(s.width, bufferLength),
         Rat(sample * s.height, SAMPLE_MAX))

\* drawSpectrum: barHeight = (sample / 255) * height * 0.8, x = i * barWidth;
\* the bar, then its reflection below the bottom edge
SpectrumRects(s, bufferLength, i, sample) ==
    <<Rect(Rat(i * s.width, bufferLength),
           Rat((5 * SAMPLE_MAX - 4 * sample) * s.height, 5 * SAMPLE_MAX),
           Rat(s.width - bufferLength, bufferLength),
           Rat(4 * sample * s.height, 5 * SAMPLE_MAX)),
      Rect(Rat(i * s.width, bufferLength),
           Rat(s.height, 1),
           Rat(s.width - bufferLength, bufferLength),
           Rat(12 * sample * s.height, 50 * SAMPLE_MAX))>>

\* drawOscilloscope: v = sample / 128.0, y = (v * height) / 2, x = i * sliceWidth
ScopePoint(s, bufferLength, i, sample) ==
    [kind |-> IF i = 0 THEN "moveTo" ELSE "lineTo",
     x |-> Rat(i * s.width, bufferLength),
     y |-> Rat(sample * s.height, 2 * 128)]

\* drawCircular: a line at angle 2 pi i / bufferLength from the circle of radius
\* min(width, height) / 3 out to radius + (sample / 255) * radius
CircularSpoke(s, bufferLength, i, sample) ==
    [kind |-> "spoke",
     turn |-> Rat(i, bufferLength),
     from |-> Rat(Min(s.width, s.height), 3),
     to |-> Rat(Min(s.width, s.height) * (SAMPLE_MAX + sample), 3 * SAMPLE_MAX)]

\* what one iteration of a renderer's loop draws
SampleShapes(s, renderer, bufferLength, i, sample) ==
    CASE renderer = "drawBars" -> <<BarRect(s, bufferLength, i, sample)>>
      [] renderer = "drawSpectrum" -> SpectrumRects(s, bufferLength, i, sample)
      [] renderer = "drawOscilloscope" -> <<ScopePoint(s, bufferLength, i, sample)>>
      [] renderer = "drawCircular" -> <<CircularSpoke(s, bufferLength, i, sample)>>

\* one iteration: the colours asked for, what is drawn, and the shadow blur in
\* force; a sample read past the end of the array is NaN and draws nothing
Iteration(s, renderer, dataArray, bufferLength, i) ==
    LET sample == SampleAt(dataArray, i)
    IN  [i |-> i,
         colors |-> IF sample = Undefined THEN << >>
                    ELSE SampleColors(s, renderer, bufferLength, i, sample),
         shapes |-> IF sample = Undefined THEN << >>
                    ELSE SampleShapes(s, renderer, bufferLength, i, sample),
         blur |-> Blur(s)]

\* faulty variant: the loop body runs once before the bound is tested
RECURSIVE sampleLoop_DoWhile(_, _, _, _, _)
sampleLoop_DoWhile(s, renderer, dataArray, bufferLength, i) ==
    IF bufferLength = Undefined \/ (i > 0 /\ i >= bufferLength) THEN s
    ELSE IF ~dataArray.defined THEN Logged(s, "TypeError", i)
    ELSE IF getColor(s, 0, 1, FullIntensity) = NotAFunction
              /\ renderer # "drawOscilloscope"
         THEN Logged(s, "TypeError", i)
    ELSE sampleLoop_DoWhile(
             Logged(s, "sample", Iteration(s, renderer, dataArray, bufferLength, i)),
             renderer, dataArray, bufferLength, i + 1)

\* the loop "for (let i = 0; i < bufferLength; i++)" reading dataArray[i]:
\* i < undefined is false; indexing an undefined dataArray throws a TypeError
RECURSIVE sampleLoop(_, _, _, _, _)
sampleLoop(s, renderer, dataArray, bufferLength, i) ==
    IF bufferLength = Undefined \/ i >= bufferLength THEN s
    ELSE IF ~dataArray.defined THEN Logged(s, "TypeError", i)
    ELSE IF getColor(s, 0, 1, FullIntensity) = NotAFunction
              /\ renderer # "drawOscilloscope"
         THEN Logged(s, "TypeError", i)
    ELSE sampleLoop(
             Logged(s, "sample", Iteration(s, renderer, dataArray, bufferLength, i)),
             renderer, dataArray, bufferLength, i + 1)

Threw(s) == \E k \in 1..Len(s.log) : s.log[k].e = "TypeError"

\* the part every renderer starts with: this.ctx.fillStyle = black; fillRect(all),
\* drawn with the shadow blur the context has at that moment
background(s, renderer) ==
    IF IsNull(s.ctx) THEN Logged(Logged(s, renderer, 0), "TypeError", 0)
    ELSE Logged(Logged(Logged(s, renderer, Obj(s.ctx).canvas),
                       "background", Obj(s.ctx).canvas),
                "shadowBlur", Blur(s))

drawBars(s, dataArray, bufferLength) ==
    LET bg == background(s, "drawBars")
    IN  IF Threw(bg) THEN bg
        ELSE sampleLoop(bg, "drawBars", dataArray, bufferLength, 0)

\* faulty variant: the glow of the second stroke is left switched on
drawOscilloscope_KeepGlow(s, dataArray, bufferLength) ==
    LET bg == background(s, "drawOscilloscope")
        styled == Painted(bg, "strokeStyle", getColor(s, 0, 1, FullIntensity))
        looped == sampleLoop(styled, "drawOscilloscope", dataArray, bufferLength, 0)
        closed == Logged(looped, "lineTo",
                         [x |-> Rat(s.width, 1), y |-> Rat(s.height, 2)])
        plain == Logged(closed, "stroke", Blur(closed))
        glowing == Logged(WithBlur(plain, 10), "shadowColor",
                          getColor(s, 0, 1, FullIntensity))
    IN  IF Threw(bg) THEN bg
        ELSE IF Threw(styled) THEN styled
        ELSE IF Threw(looped) THEN looped
        ELSE Logged(glowing, "stroke", Blur(glowing))

drawOscilloscope(s, dataArray, bufferLength) ==
    LET bg == background(s, "drawOscilloscope")
        styled == Painted(bg, "strokeStyle", getColor(s, 0, 1, FullIntensity))
        looped == sampleLoop(styled, "drawOscilloscope", dataArray, bufferLength, 0)
        closed == Logged(looped, "lineTo",
                         [x |-> Rat(s.width, 1), y |-> Rat(s.height, 2)])
        plain == Logged(closed, "stroke", Blur(closed))
        glowing == Logged(WithBlur(plain, 10), "shadowColor",
                          getColor(s, 0, 1, FullIntensity))
    IN  IF Threw(bg) THEN bg
        ELSE IF Threw(styled) THEN styled
        ELSE IF Threw(looped) THEN looped
        ELSE WithBlur(Logged(glowing, "stroke", Blur(glowing)), 0)

drawSpectrum(s, dataArray, bufferLength) ==
    LET bg == background(s, "drawSpectrum")
    IN  IF Threw(bg) THEN bg
        ELSE sampleLoop(bg, "drawSpectrum", dataArray, bufferLength, 0)

drawCircular(s, dataArray, bufferLength) ==
    LET bg == background(s, "drawCircular")
        looped == sampleLoop(bg, "drawCircular", dataArray, bufferLength, 0)
        disc == Logged(looped, "arc", Rat(Min(s.width, s.height), 30))
        filled == Logged(Painted(disc, "fillStyle", getColor(s, 0, 1, FullIntensity)),
                         "fill", Blur(disc))
        glowing == Logged(WithBlur(filled, 20), "shadowColor",
                          getColor(s, 0, 1, FullIntensity))
    IN  IF Threw(bg) THEN bg
        ELSE IF Threw(looped) THEN looped
        ELSE IF getColor(s, 0, 1, FullIntensity) = NotAFunction
             THEN Logged(disc, "TypeError", 0)
        ELSE WithBlur(Logged(glowing, "fill", Blur(glowing)), 0)

\* faulty variant: the milkdrop branch does not return and falls into the switch
draw_NoReturn(s, dataArray, bufferLength) ==
    LET first == IF s.type = MILKDROP /\ ~IsNull(s.butterchurnVisualizer)
                 THEN Logged(s, "engine.render", Obj(s.butterchurnVisualizer).canvas)
                 ELSE s
    IN  CASE s.type = "bars" -> drawBars(first, dataArray, bufferLength)
          [] s.type = "oscilloscope" -> drawOscilloscope(first, dataArray, bufferLength)
          [] s.type = "spectrum" -> drawSpectrum(first, dataArray, bufferLength)
          [] s.type = "circular" -> drawCircular(first, dataArray, bufferLength)
          [] OTHER -> drawBars(first, dataArray, bufferLength)

draw(s, dataArray, bufferLength) ==
    IF s.type = MILKDROP
    THEN IF ~IsNull(s.butterchurnVisualizer)
         THEN Logged(s, "engine.render", Obj(s.butterchurnVisualizer).canvas)
         ELSE s
    ELSE CASE s.type = "bars" -> drawBars(s, dataArray, bufferLength)
           [] s.type = "oscilloscope" -> drawOscilloscope(s, dataArray, bufferLength)
           [] s.type = "spectrum" -> drawSpectrum(s, dataArray, bufferLength)
           [] s.type = "circular" -> drawCircular(s, dataArray, bufferLength)
           [] OTHER -> drawBars(s, dataArray, bufferLength)

----------------------------------------------------------------------------
(* The state machine *)

NotWatching == [elapsed |-> Undefined, loads |-> 0, restart |-> FALSE]

\* the driver's variables after the script has run (src/src/app.js:7-18), null
\* being 0, and the browser's side of them: the page's visibility, the frame
\* callbacks requested and not yet run or cancelled, the media streams whose
\* tracks run, the source nodes connected to the analyser, the
\* startVisualization calls waiting at each of their awaits.  History: the
\* numbers of contexts, streams, calls and uploads so far, and what the last
\* event did (draw calls, stopVisualization run, a null analyser used).
AppStart ==
    [audioContext |-> 0, analyser |-> 0, microphone |-> 0, mediaStream |-> 0,
     animationId |-> 0, isRunning |-> FALSE, audioSourceType |-> "microphone",
     audioElement |-> 0, fileSource |-> 0,
     hidden |-> FALSE, pending |-> {}, liveStreams |-> {}, connected |-> {},
     awaiting |-> [resume |-> 0, getUserMedia |-> 0, play |-> 0],
     contexts |-> 0, streams |-> 0, starts |-> 0, uploads |-> 0,
     draws |-> 0, stopRan |-> FALSE, nullAnalyser |-> FALSE]

\* new Visualizer(canvas, null, callback) followed by resizeCanvas (src/src/app.js:39)
Constructed ==
    /\ type = MILKDROP
    /\ \E wh \in WindowSizes :
          /\ width = wh[1]
          /\ height = wh[2]
          /\ canvas = [id |-> 0, width |-> wh[1], height |-> wh[2],
                       contextType |-> "none"]
    /\ ctx = Null
    /\ colorScheme = "classic"
    /\ audioContext = "null"
    /\ butterchurnAudioNode = "null"
    /\ butterchurnVisualizer = Null
    /\ currentPresetIndex \in DOMAIN presetKeys
    /\ autoRotateInterval = 0
    /\ isAutoRotating = TRUE
    /\ timers = << >>
    /\ log = << >>
    /\ lastCall = [op |-> "new", arg |-> 0, repeat |-> FALSE]
    /\ recreations = 0
    /\ classChanges = 0
    /\ stopped = FALSE
    /\ pinned = FALSE
    /\ sinceAuto = NotWatching
    /\ query = [index |-> 0, total |-> 1, intensity |-> FullIntensity]
    /\ frame = Absent
    /\ app = AppStart

\* the pinned key is recorded only in the specifications that ask for it
NotRecorded == 0 - 2

Init == Constructed /\ pinnedId = NotRecorded

\* as Init, with the pinned key recorded from the start
InitPreset == Constructed /\ pinnedId = NoPreset

Count(l, e) == Cardinality({k \in 1..Len(l) : l[k].e = e})

\* the object's fields, the timer table and the call log after a method returned r
Apply(r) ==
    /\ type' = r.type
    /\ canvas' = r.canvas
    /\ ctx' = r.ctx
    /\ width' = r.width
    /\ height' = r.height
    /\ colorScheme' = r.colorScheme
    /\ audioContext' = r.audioContext
    /\ butterchurnAudioNode' = r.butterchurnAudioNode
    /\ butterchurnVisualizer' = r.butterchurnVisualizer
    /\ currentPresetIndex' = r.currentPresetIndex
    /\ autoRotateInterval' = r.autoRotateInterval
    /\ isAutoRotating' = r.isAutoRotating
    /\ timers' = r.timers
    /\ log' = r.log
    /\ recreations' = r.recreations

\* the history variables after a call op(arg) that returned r; dataArray is
\* the buffer the call was given, if it was a draw
CalledWith(op, arg, r, dataArray) ==
    /\ lastCall' = [op |-> op, arg |-> arg,
                    repeat |-> lastCall.op = op /\ lastCall.arg = arg]
    /\ stopped' = IF Count(r.log, "setInterval") > 0 THEN FALSE
                  ELSE IF op = "clear" \/ (op = "setType" /\ type = MILKDROP
                                                          /\ arg # MILKDROP)
                       THEN TRUE
                  ELSE stopped
    /\ pinned' = IF op = "setPreset" THEN arg # AUTO ELSE pinned
    /\ pinnedId' = IF op # "setPreset" \/ pinnedId = NotRecorded THEN pinnedId
                   ELSE IF arg \in PresetNames THEN arg
                   ELSE NoPreset
    /\ sinceAuto' = IF op = "setPreset" /\ arg = AUTO
                    THEN [elapsed |-> 0, loads |-> 0, restart |-> DOMAIN timers # {}]
                    ELSE NotWatching
    /\ UNCHANGED <<query, app>>
    /\ frame' = dataArray

Called(op, arg, r) == CalledWith(op, arg, r, Absent)

Class(t) == IF t = MILKDROP THEN "webgl" ELSE "2d"

SetType(t) ==
    /\ recreations < MaxRecreate \/ Class(t) = Class(type)
    /\ \E fail \in Failures :
          \E r \in {setType(Self, t, fail)} :
              /\ fail = "none" \/ r # setType(Self, t, "none")
              /\ Apply(r)
              /\ Called("setType", t, r)
    /\ classChanges' = IF Class(t) # Class(type) THEN classChanges + 1
                       ELSE classChanges

InitButterchurn ==
    \E pair \in AudioPairs, fail \in Failures :
        \E r \in {initButterchurn(Self, pair[1], pair[2], fail)} :
            /\ fail = "none" \/ r # initButterchurn(Self, pair[1], pair[2], "none")
            /\ Apply(r)
            /\ Called("initButterchurn", pair[1], r)
            /\ UNCHANGED classChanges

SetPreset(presetName) ==
    \E r \in {setPreset(Self, presetName)} :
        /\ Apply(r)
        /\ Called("setPreset", presetName, r)
        /\ UNCHANGED classChanges

Clear ==
    \E r \in {clear(Self)} :
        /\ Apply(r)
        /\ Called("clear", 0, r)
        /\ UNCHANGED classChanges

\* the window's resize event
Resize ==
    \E wh \in WindowSizes :
        \E r \in {resizeCanvas(Self, wh[1], wh[2])} :
            /\ Apply(r)
            /\ Called("resizeCanvas", wh[1], r)
            /\ UNCHANGED classChanges

\* the colour scheme control (it touches no field the mode machine reads)
SetColorScheme(scheme) ==
    \E r \in {setColorScheme(Self, scheme)} :
        /\ Apply(r)
        /\ Called("setColorScheme", scheme, r)
        /\ UNCHANGED classChanges

\* one frame: draw(dataArray, bufferLength)
DrawFrame(dataArray, bufferLength) ==
    \E r \in {draw(Self, dataArray, bufferLength)} :
        /\ Apply(r)
        /\ CalledWith(IF dataArray.defined THEN "draw" ELSE "drawNoBuffer",
                      bufferLength, r, dataArray)
        /\ UNCHANGED classChanges

\* animate: a frame of silence, or a call that leaves arguments out
Draw ==
    \E given \in BOOLEAN, n \in {Undefined, 0, MaxLen} :
        DrawFrame(IF given THEN Buffer([i \in 1..MaxLen |-> 0]) ELSE Absent, n)

\* the callbacks of the timers that are due, in the order of their handles
RECURSIVE fireDue(_, _, _)
fireDue(s, due, pick) ==
    IF due = {} THEN s
    ELSE LET t == CHOOSE x \in due : \A y \in due : x <= y
         IN  fireDue(rotateTick(s, pick[t]), due \ {t}, pick)

\* StepMs pass; every interval timer that comes due runs its callback once
AdvanceTime ==
    LET due == {t \in DOMAIN timers : timers[t] + StepMs >= ROTATE_MS}
        aged == [Self EXCEPT !.timers = [t \in DOMAIN timers |->
                                 IF t \in due THEN 0 ELSE timers[t] + StepMs]]
        watched == /\ sinceAuto.elapsed # Undefined
                   /\ sinceAuto.elapsed + StepMs < 2 * ROTATE_MS
    IN  \E pick \in [due -> DOMAIN presetKeys] :
           \E r \in {fireDue(aged, due, pick)} :
               /\ Apply(r)
               /\ lastCall' = [op |-> "time", arg |-> Cardinality(due), repeat |-> FALSE]
               /\ sinceAuto' = IF watched
                               THEN [sinceAuto EXCEPT
                                        !.elapsed = @ + StepMs,
                                        !.loads = @ + Count(r.log, "loadPreset")]
                               ELSE NotWatching
               /\ frame' = Absent
               /\ UNCHANGED <<stopped, pinned, pinnedId, classChanges, query, app>>

Next ==
    \/ \E t \in Types : SetType(t)
    \/ InitButterchurn
    \/ \E p \in PresetNames \cup {AUTO, UnknownPreset} : SetPreset(p)
    \/ Clear
    \/ Resize
    \/ Draw
    \/ AdvanceTime

Spec == Init /\ [][Next]_vars

\* the intensities the renderers pass: 1, 0.3, sample / 255 and (sample / 255) * 0.3
Intensities ==
    {FullIntensity, Intensity(3, 10)}
        \cup {SampleIntensity(sample) : sample \in 0..SAMPLE_MAX}
        \cup {DimIntensity(sample) : sample \in 0..SAMPLE_MAX}

\* a column index below the number of columns, and an intensity
Queries ==
    {[index |-> q[1], total |-> q[2], intensity |-> q[3]] :
        q \in {x \in (0..(MaxTotal - 1)) \X (1..MaxTotal) \X Intensities :
                  x[1] < x[2]}}

\* a Visualizer as constructed (in the 4 x 2 window, on the first preset: the
\* colour mapper reads neither), about to be asked for the colour of one query
InitColor ==
    /\ type = MILKDROP
    /\ width = 4
    /\ height = 2
    /\ canvas = [id |-> 0, width |-> 4, height |-> 2, contextType |-> "none"]
    /\ ctx = Null
    /\ colorScheme = "classic"
    /\ audioContext = "null"
    /\ butterchurnAudioNode = "null"
    /\ butterchurnVisualizer = Null
    /\ currentPresetIndex = 0
    /\ autoRotateInterval = 0
    /\ isAutoRotating = TRUE
    /\ timers = << >>
    /\ log = << >>
    /\ lastCall = [op |-> "new", arg |-> 0, repeat |-> FALSE]
    /\ recreations = 0
    /\ classChanges = 0
    /\ stopped = FALSE
    /\ pinned = FALSE
    /\ pinnedId = NotRecorded
    /\ sinceAuto = NotWatching
    /\ query \in Queries
    /\ frame = Absent
    /\ app = AppStart

\* this.getColor(index, total, intensity); the log keeps the colour returned,
\* or the TypeError thrown
GetColor ==
    \E r \in {Painted(Self, "getColor",
                       getColor(Self, query.index, query.total, query.intensity))} :
        /\ Apply(r)
        /\ Called("getColor", query.index, r)
        /\ UNCHANGED classChanges

NextColor ==
    \/ \E scheme \in Schemes \cup {UnknownScheme} \cup PrototypeMethods
                       \cup PrototypeObjects : SetColorScheme(scheme)
    \/ GetColor

\* the colour mapper on its own: schemes are set and colours are asked for
SpecColor == InitColor /\ [][NextColor]_vars

NextScheme ==
    \/ \E t \in Types : SetType(t)
    \/ InitButterchurn
    \/ \E scheme \in Schemes \cup {UnknownScheme} \cup PrototypeMethods
                       \cup PrototypeObjects : SetColorScheme(scheme)
    \/ Draw

\* the render modes together with the colour scheme control
SpecScheme == Init /\ [][NextScheme]_vars

NextPreset ==
    \/ \E t \in {"bars", MILKDROP} : SetType(t)
    \/ InitButterchurn
    \/ \E p \in PresetNames \cup {AUTO, UnknownPreset, InheritedPreset} : SetPreset(p)
    \/ Clear
    \/ AdvanceTime

\* the preset controls: the mode changes between the two classes, audio is
\* bound, presets are chosen by any name, the driver stops, time passes
SpecPreset == InitPreset /\ [][NextPreset]_vars

\* samples an analyser delivers, and values outside the range of a byte
Samples == {0, 51, SAMPLE_MAX}
OutOfRange == {0 - 51, 306}
Frames(n) == [1..n -> Samples \cup OutOfRange]

\* animate with sound: a frame of n samples, drawn at the buffer's length
Render ==
    \E n \in 0..MaxLen : \E data \in Frames(n) : DrawFrame(Buffer(data), n)

\* a Visualizer as constructed, on the first preset (no renderer reads it)
InitRender == Init /\ currentPresetIndex = 0

NextRender ==
    \/ \E t \in Modes2D \cup {UnknownType} : SetType(t)
    \/ \E scheme \in {"classic", "rainbow"} : SetColorScheme(scheme)
    \/ Render

\* the 2D renderers: modes and schemes change between frames of sound
SpecRender == InitRender /\ [][NextRender]_vars

-----------------------------------------------------------------------------
(* The host driver (src/src/app.js).  A handler works on the pair of the     *)
(* driver's variables a and the visualizer v; thrown is set while an         *)
(* exception travels up to the handler's catch.                              *)

Driver ==
    [a |-> [app EXCEPT !.draws = 0, !.stopRan = FALSE, !.nullAnalyser = FALSE],
     v |-> Self, thrown |-> FALSE]

\* the objects the driver hands to the visualizer
AcName(n) == IF n = 0 THEN "null" ELSE "ac" \o ToString(n)
MicName(n) == IF n = 0 THEN "null" ELSE "mic" \o ToString(n)
FileName(n) == IF n = 0 THEN "null" ELSE "file" \o ToString(n)

\* cancelAnimationFrame(animationId); animationId = null
cancelFrame(a) ==
    [a EXCEPT !.pending = @ \ {a.animationId}, !.animationId = 0]

\* faulty variant: the audio context is closed whatever the source is
stopVisualization_CloseAlways(d) ==
    LET a == d.a
        mic == a.audioSourceType = "microphone"
        halted == [(IF a.animationId # 0 THEN cancelFrame(a) ELSE a) EXCEPT
                      !.isRunning = FALSE, !.stopRan = TRUE]
        released ==
            IF mic
            THEN [halted EXCEPT
                    !.liveStreams = @ \ {a.mediaStream},
                    !.mediaStream = 0,
                    !.connected = @ \ {MicName(a.microphone)},
                    !.microphone = 0]
            ELSE halted
        closed ==
            IF a.audioContext # 0
            THEN [released EXCEPT !.audioContext = 0, !.analyser = 0,
                                  !.connected = {}]
            ELSE released
    IN  [d EXCEPT !.a = closed, !.v = clear(d.v)]

stopVisualization(d) ==
    LET a == d.a
        mic == a.audioSourceType = "microphone"
        halted == [(IF a.animationId # 0 THEN cancelFrame(a) ELSE a) EXCEPT
                      !.isRunning = FALSE, !.stopRan = TRUE]
        released ==
            IF mic
            THEN [halted EXCEPT
                    !.liveStreams = @ \ {a.mediaStream},
                    !.mediaStream = 0,
                    !.connected = @ \ {MicName(a.microphone)},
                    !.microphone = 0]
            ELSE halted
        closed ==
            IF mic /\ a.audioContext # 0
            THEN [released EXCEPT !.audioContext = 0, !.analyser = 0,
                                  !.connected = {}]
            ELSE released
    IN  [d EXCEPT !.a = closed, !.v = clear(d.v)]

\* requestAnimationFrame returns a handle no pending request has
newFrame(a) ==
    CHOOSE n \in 1..(Cardinality(a.pending) + 2) :
        /\ n \notin a.pending \cup {a.animationId}
        /\ \A m \in 1..(n - 1) : m \in a.pending \cup {a.animationId}

animate(d) ==
    LET a == d.a
        requested == [a EXCEPT !.animationId = newFrame(a),
                               !.pending = @ \cup {newFrame(a)}]
    IN  IF ~a.isRunning THEN d
        ELSE IF a.analyser = 0
        THEN [d EXCEPT !.a = [requested EXCEPT !.nullAnalyser = TRUE],
                       !.thrown = TRUE]
        ELSE [d EXCEPT !.a = [requested EXCEPT !.draws = @ + 1],
                       !.v = draw(d.v, Buffer([i \in 1..MaxLen |-> 0]), MaxLen)]

\* faulty variant: the loop is started whether or not a frame is pending
running_AlwaysAnimate(d) == animate([d EXCEPT !.a.isRunning = TRUE])

\* the end of startVisualization: isRunning = true; if (!animationId) animate()
running(d) ==
    LET on == [d EXCEPT !.a.isRunning = TRUE]
    IN  IF on.a.animationId = 0 THEN animate(on) ELSE on

\* the catch block of startVisualization
caught(d) ==
    IF d.thrown THEN stopVisualization([d EXCEPT !.thrown = FALSE]) ELSE d

\* visualizer.initButterchurn(audioContext, node)
bound(d, node, fail) ==
    [d EXCEPT !.v = initButterchurn(d.v, AcName(d.a.audioContext), node, fail)]

\* startVisualization after getUserMedia has resolved with the stream
withStream(d, stream, fail) ==
    LET got == [d EXCEPT !.a.mediaStream = stream,
                         !.a.streams = @ + 1,
                         !.a.liveStreams = @ \cup {stream}]
    IN  IF got.a.audioContext = 0 THEN [got EXCEPT !.thrown = TRUE]
        ELSE running(bound([got EXCEPT !.a.microphone = stream,
                                       !.a.connected = @ \cup {MicName(stream)}],
                           MicName(stream), fail))

\* startVisualization from the choice of the source up to its next await
fromSource(d, fail) ==
    LET a == d.a
    IN  IF a.audioSourceType = "microphone"
        THEN IF a.mediaStream = 0
             THEN [d EXCEPT !.a.awaiting.getUserMedia = @ + 1]
             ELSE running(bound(d, MicName(a.microphone), fail))
        ELSE IF a.audioElement = 0 THEN d
        ELSE IF a.fileSource = 0 /\ a.audioContext = 0
             THEN [d EXCEPT !.thrown = TRUE]
        ELSE LET sourced ==
                   IF a.fileSource = 0
                   THEN [d EXCEPT !.a.fileSource = a.audioElement,
                                  !.a.connected = @ \cup {FileName(a.audioElement)}]
                   ELSE d
             IN  [bound(sourced, FileName(sourced.a.fileSource), fail) EXCEPT
                     !.a.awaiting.play = @ + 1]

\* startVisualization up to its first await; suspended is audioContext.state
startVisualization(d, suspended, fail) ==
    LET a == d.a
        called == [d EXCEPT !.a.starts = @ + 1]
        ready == IF a.audioContext = 0
                 THEN [called EXCEPT !.a.contexts = @ + 1,
                                     !.a.audioContext = a.contexts + 1,
                                     !.a.analyser = a.contexts + 1,
                                     !.a.connected = {}]
                 ELSE called
    IN  IF suspended THEN [ready EXCEPT !.a.awaiting.resume = @ + 1]
        ELSE caught(fromSource(ready, fail))

toggleVisualization(d, suspended, fail) ==
    LET a == d.a
    IN  IF a.isRunning
        THEN IF a.audioSourceType = "file" /\ a.audioElement # 0
             THEN [d EXCEPT !.a = [(IF a.animationId # 0 THEN cancelFrame(a)
                                                         ELSE a) EXCEPT
                                       !.isRunning = FALSE]]
             ELSE stopVisualization(d)
        ELSE startVisualization(d, suspended, fail)

\* the file input's change event with a file chosen
handleFileUpload(d, suspended, fail) ==
    LET halted == IF d.a.isRunning THEN stopVisualization(d) ELSE d
        loaded == [halted EXCEPT !.a.audioSourceType = "file",
                                 !.a.uploads = @ + 1,
                                 !.a.audioElement = halted.a.uploads + 1]
    IN  startVisualization(loaded, suspended, fail)

\* the visibilitychange handler; hidden is the new value of document.hidden
visibilitychange(d, hidden) ==
    LET a == [d.a EXCEPT !.hidden = hidden]
    IN  IF hidden /\ a.isRunning THEN [d EXCEPT !.a = cancelFrame(a)]
        ELSE IF ~hidden /\ a.isRunning /\ a.animationId = 0
        THEN [animate([d EXCEPT !.a = a]) EXCEPT !.thrown = FALSE]
        ELSE [d EXCEPT !.a = a]

\* the browser runs the frame callbacks that were pending, one after another
RECURSIVE runCallbacks(_, _)
runCallbacks(d, callbacks) ==
    IF callbacks = {} THEN d
    ELSE LET f == CHOOSE x \in callbacks : \A y \in callbacks : x <= y
         IN  runCallbacks([animate(d) EXCEPT !.thrown = FALSE], callbacks \ {f})

\* the state after a handler of the driver has returned d
Handled(op, d) ==
    /\ Apply(d.v)
    /\ app' = d.a
    /\ lastCall' = [op |-> op, arg |-> 0, repeat |-> FALSE]
    /\ frame' = Absent
    /\ UNCHANGED <<stopped, pinned, pinnedId, sinceAuto, classChanges, query>>

\* a click on the play/stop button
Toggle ==
    /\ app.isRunning \/ app.starts < MaxStarts
    /\ \E suspended \in BOOLEAN, fail \in Failures :
          \E d \in {toggleVisualization(Driver, suspended, fail)} :
              Handled("toggleVisualization", d)

\* a file is chosen
Upload ==
    /\ app.uploads < MaxUploads
    /\ app.starts < MaxStarts
    /\ \E suspended \in BOOLEAN, fail \in Failures :
          \E d \in {handleFileUpload(Driver, suspended, fail)} :
              Handled("handleFileUpload", d)

\* await audioContext.resume() returns
Resumed ==
    /\ app.awaiting.resume > 0
    /\ \E fail \in Failures :
          \E d \in {caught(fromSource([Driver EXCEPT !.a.awaiting.resume = @ - 1],
                                      fail))} :
              Handled("resumed", d)

\* await audioContext.resume() throws (the context has been closed)
ResumeFailed ==
    /\ app.awaiting.resume > 0
    /\ \E d \in {stopVisualization([Driver EXCEPT !.a.awaiting.resume = @ - 1])} :
          Handled("resumeFailed", d)

\* await getUserMedia() returns a new stream
StreamGranted ==
    /\ app.awaiting.getUserMedia > 0
    /\ \E fail \in Failures :
          \E d \in {caught(withStream(
                        [Driver EXCEPT !.a.awaiting.getUserMedia = @ - 1],
                        app.streams + 1, fail))} :
              Handled("streamGranted", d)

\* await getUserMedia() throws (access denied)
StreamDenied ==
    /\ app.awaiting.getUserMedia > 0
    /\ \E d \in {stopVisualization(
                     [Driver EXCEPT !.a.awaiting.getUserMedia = @ - 1])} :
          Handled("streamDenied", d)

\* await audioElement.play() returns
Played ==
    /\ app.awaiting.play > 0
    /\ \E d \in {caught(running([Driver EXCEPT !.a.awaiting.play = @ - 1]))} :
          Handled("played", d)

\* await audioElement.play() throws (playback refused or interrupted)
PlayFailed ==
    /\ app.awaiting.play > 0
    /\ \E d \in {stopVisualization([Driver EXCEPT !.a.awaiting.play = @ - 1])} :
          Handled("playFailed", d)

\* the page is hidden or shown
Visibility ==
    \E d \in {visibilitychange(Driver, ~app.hidden)} :
        Handled("visibilitychange", d)

\* a display refresh of the visible page: the pending frame callbacks run
DisplayFrame ==
    /\ ~app.hidden
    /\ app.pending # {}
    /\ \E d \in {runCallbacks([Driver EXCEPT !.a.pending = {}], app.pending)} :
          Handled("frame", d)

\* the page as loaded, in a window of one size, the first preset drawn
InitDriver == Init /\ currentPresetIndex = 0 /\ width = 4

NextDriver ==
    \/ Toggle
    \/ Upload
    \/ Resumed
    \/ ResumeFailed
    \/ StreamGranted
    \/ StreamDenied
    \/ Played
    \/ PlayFailed
    \/ Visibility
    \/ DisplayFrame

\* the driver with its visualizer: clicks, uploads, visibility changes,
\* display refreshes and the returns of its awaits, in any order
SpecDriver == InitDriver /\ [][NextDriver]_vars

----------------------------------------------------------------------------
(* Properties *)

HasEngine == ~IsNull(butterchurnVisualizer)
Has2d == ~IsNull(ctx)
Live == DOMAIN timers
InLog(e) == Count(log, e) > 0
DrawCall == lastCall.op \in {"draw", "drawNoBuffer"}

\* C1 as stated: in every state the surface has exactly one active context that
\* matches the mode's class: a 2D context and no engine in a 2D mode, an
\* engine and no 2D context in milkdrop mode.
C1_ExactlyOneContext ==
    IF type = MILKDROP
    THEN HasEngine /\ ~Has2d /\ canvas.contextType = "webgl"
    ELSE Has2d /\ ~HasEngine /\ canvas.contextType = "2d"

\* C1 amended: in every state there is at most one active context and it
\* matches the mode's class: in a 2D mode the 2D context of the current canvas
\* and no engine; in milkdrop mode no 2D context, and an engine (the WebGL
\* context of the current canvas) only once an audio context has been bound.
C1_MutualExclusion ==
    /\ type # MILKDROP =>
          /\ Has2d /\ Obj(ctx).canvas = canvas.id
          /\ ~HasEngine
          /\ canvas.contextType = "2d"
    /\ type = MILKDROP =>
          /\ ~Has2d
          /\ canvas.contextType = (IF HasEngine THEN "webgl" ELSE "none")
          /\ HasEngine => /\ Obj(butterchurnVisualizer).canvas = canvas.id
                          /\ audioContext # "null"

\* C1 witness: milkdrop mode entered again from a 2D mode, with an engine
C1_Witness ==
    type = MILKDROP /\ HasEngine /\ recreations >= 2

\* the draw calls of the last operation and the canvas whose context each used
DrawEvents ==
    {"background", "fillRect", "engine.render", "drawBars", "drawOscilloscope",
     "drawSpectrum", "drawCircular"}

\* C2: the canvas has been replaced exactly once for each setType call whose
\* old and new class differ and never otherwise, and every context held, and
\* every draw call issued, belongs to the current canvas.
C2_RecreationPerClassChange ==
    /\ recreations = classChanges
    /\ canvas.id = recreations
    /\ Has2d => Obj(ctx).canvas = canvas.id
    /\ HasEngine => Obj(butterchurnVisualizer).canvas = canvas.id
    /\ \A k \in 1..Len(log) : log[k].e \in DrawEvents => log[k].a = canvas.id

\* C2 witness: a frame drawn in oscilloscope mode after milkdrop -> 2D ->
\* milkdrop -> oscilloscope (three replacements from the initial milkdrop mode)
C2_Witness ==
    /\ lastCall.op = "draw" /\ type = "oscilloscope"
    /\ recreations = 3 /\ InLog("background")

\* C3: a setType(m) that directly follows a setType(m) changes no field of the
\* object, replaces no canvas, touches no timer and calls no collaborator.
C3_SetTypeIdempotent ==
    [][(lastCall.op = "setType" /\ lastCall'.op = "setType"
            /\ lastCall'.arg = lastCall.arg)
        => /\ UNCHANGED <<type, canvas, ctx, width, height, colorScheme,
                          audioContext, butterchurnAudioNode,
                          butterchurnVisualizer, currentPresetIndex,
                          autoRotateInterval, isAutoRotating, timers,
                          recreations>>
           /\ log' = << >>]_vars

\* C3 witness: setType("milkdrop") repeated with an engine and a live timer
C3_Witness ==
    /\ lastCall.op = "setType" /\ lastCall.repeat
    /\ type = MILKDROP /\ HasEngine /\ Live # {}

\* C4: at most one interval timer is active, and it is the one the object
\* holds in autoRotateInterval (no active timer is orphaned); a timer is armed
\* only when none is active.
C4_AtMostOneTimer ==
    /\ Cardinality(Live) <= 1
    /\ Live = (IF autoRotateInterval = 0 THEN {} ELSE {autoRotateInterval})
    /\ Count(log, "setInterval") <= 1
    /\ lastCall.op = "time" => lastCall.arg <= 1

\* C4 witness: setPreset("auto") restarted a running timer
C4_Witness ==
    /\ lastCall.op = "setPreset" /\ lastCall.arg = AUTO
    /\ InLog("clearInterval") /\ InLog("setInterval")
    /\ Cardinality(Live) = 1

\* the names passed to loadPreset by the last operation, in order
RECURSIVE LoadedNames(_)
LoadedNames(l) ==
    IF l = << >> THEN << >>
    ELSE IF Head(l).e = "loadPreset" THEN <<Head(l).a>> \o LoadedNames(Tail(l))
    ELSE LoadedNames(Tail(l))

\* C5: from a setPreset(id) with a concrete id until the next setPreset("auto"),
\* whatever is called in between, no interval timer is active and no passage
\* of time runs a rotation callback or loads a preset; setPreset(id) itself
\* passes id, and nothing else, to loadPreset.
C5_PinnedStopsRotation ==
    /\ pinned => /\ Live = {}
                 /\ ~InLog("setInterval")
                 /\ lastCall.op = "time" =>
                       /\ lastCall.arg = 0
                       /\ LoadedNames(log) = << >>
    /\ (lastCall.op = "setPreset" /\ lastCall.arg # AUTO) =>
          LoadedNames(log) = <<lastCall.arg>>

\* C5 witness: time passes with a preset pinned, in milkdrop mode, on an
\* engine created after the canvas was replaced twice
C5_Witness ==
    /\ pinned /\ lastCall.op = "time"
    /\ type = MILKDROP /\ HasEngine /\ recreations >= 2

\* C6: after setPreset("auto") and no other call, no loadPreset call is made
\* before ROTATE_MS have passed and exactly one has been made once ROTATE_MS
\* have passed (and until 2 * ROTATE_MS), whether or not a timer was running
\* when setPreset("auto") was called.
C6_OneLoadPerInterval ==
    sinceAuto.elapsed # Undefined =>
        /\ sinceAuto.elapsed < ROTATE_MS => sinceAuto.loads = 0
        /\ (sinceAuto.elapsed >= ROTATE_MS /\ sinceAuto.elapsed < 2 * ROTATE_MS)
              => sinceAuto.loads = 1

\* C6 witness: exactly ROTATE_MS after a setPreset("auto") that restarted a
\* running timer
C6_Witness ==
    /\ sinceAuto.elapsed = ROTATE_MS /\ sinceAuto.restart
    /\ sinceAuto.loads = 1

\* C7: right after clear() and right after a setType from milkdrop to a 2D
\* mode no interval timer is active, and from then until startAutoRotate
\* runs again no timer is active and no passage of time runs a rotation
\* callback.
C7_StoppedStaysStopped ==
    /\ (lastCall.op = "clear" \/ (lastCall.op = "setType" /\ type # MILKDROP
                                      /\ InLog("replaceChild")))
          => stopped /\ Live = {} /\ autoRotateInterval = 0
    /\ stopped => /\ Live = {}
                  /\ lastCall.op = "time" => (lastCall.arg = 0 /\ ~InLog("loadPreset"))

\* C7 witness: time passes after a clear() made in milkdrop mode on a running
\* engine whose selection is auto
C7_Witness ==
    /\ stopped /\ lastCall.op = "time"
    /\ type = MILKDROP /\ HasEngine /\ isAutoRotating

\* the last operation was a setType that entered milkdrop mode from a 2D mode
EnteredMilkdrop ==
    lastCall.op = "setType" /\ type = MILKDROP /\ InLog("replaceChild")

RendererCalls == Count(log, "drawBars") + Count(log, "drawOscilloscope")
                   + Count(log, "drawSpectrum") + Count(log, "drawCircular")

RendererOf(t) ==
    CASE t = "bars" -> "drawBars"
      [] t = "oscilloscope" -> "drawOscilloscope"
      [] t = "spectrum" -> "drawSpectrum"
      [] t = "circular" -> "drawCircular"

\* C9 as stated: draw in milkdrop mode calls the engine's render exactly once
\* and no 2D renderer; draw in a 2D mode calls exactly the renderer of the
\* mode and never the engine.
C9_DispatchAlwaysRenders ==
    DrawCall =>
        IF type = MILKDROP
        THEN Count(log, "engine.render") = 1 /\ RendererCalls = 0
        ELSE /\ Count(log, "engine.render") = 0
             /\ RendererCalls = 1
             /\ type \in Modes2D => Count(log, RendererOf(type)) = 1

\* C9 amended: draw in milkdrop mode calls no 2D renderer, draws nothing on a
\* 2D context, and calls the engine's render exactly once when an engine
\* exists and not at all when none exists, with or without a buffer; draw in
\* a 2D mode calls exactly the renderer of the mode and never the engine.
C9_Dispatch ==
    DrawCall =>
        IF type = MILKDROP
        THEN /\ Count(log, "engine.render") = (IF HasEngine THEN 1 ELSE 0)
             /\ Len(log) = Count(log, "engine.render")
        ELSE /\ Count(log, "engine.render") = 0
             /\ RendererCalls = 1
             /\ type \in Modes2D => Count(log, RendererOf(type)) = 1

\* C9 witness: a draw without a buffer in milkdrop mode rendered the engine
C9_Witness ==
    /\ lastCall.op = "drawNoBuffer" /\ type = MILKDROP
    /\ Count(log, "engine.render") = 1

\* C10 as stated: draw without a buffer in a 2D mode raises InvalidArgument
\* and draws nothing.
C10_NoBufferRejected ==
    (lastCall.op = "drawNoBuffer" /\ type # MILKDROP) =>
        /\ InLog("InvalidArgument")
        /\ ~InLog("background")

\* C11 as stated: setType with a value that names no mode leaves the stored
\* type, the canvas, the contexts and the rotation timer unchanged.
C11_UnknownTypeIgnored ==
    [][lastCall'.op = "setType" /\ lastCall'.arg = UnknownType
          => UNCHANGED <<type, canvas, ctx, butterchurnVisualizer, timers>>]_vars

\* C11 amended: setType with a value that names no mode stores that value and
\* treats it as a 2D mode: coming from milkdrop the canvas is replaced, the
\* engine is dropped, the rotation timer is stopped and a 2D context is taken;
\* coming from a 2D mode nothing but the stored type changes; and draw then
\* renders bars.
C11_UnknownTypeStored ==
    [][/\ lastCall'.op = "setType" /\ lastCall'.arg = UnknownType
            => /\ type' = UnknownType
               /\ IF type = MILKDROP
                  THEN /\ canvas'.id # canvas.id
                       /\ ctx' # Null /\ Obj(ctx').canvas = canvas'.id
                       /\ butterchurnVisualizer' = Null
                       /\ timers' = << >>
                       /\ autoRotateInterval' = 0
                  ELSE UNCHANGED <<canvas, ctx, butterchurnVisualizer, timers,
                                   autoRotateInterval>>
       /\ lastCall'.op = "draw" /\ type' = UnknownType
            => Count(log', "drawBars") = 1 /\ Count(log', "TypeError") = 0]_vars

C11_Witness ==
    /\ lastCall.op = "setType"
    /\ lastCall.arg = UnknownType
    /\ type = UnknownType
    /\ InLog("replaceChild")
    /\ InLog("clearInterval")
    /\ Has2d

\* C12 as stated: under every scheme value other than classic, fire, ocean,
\* rainbow and neon, getColor does not throw and returns the colour the classic
\* scheme returns for the same index, total and intensity.
C12_UnknownSchemeIsClassic ==
    lastCall.op = "getColor" /\ colorScheme \notin Schemes
        => log = <<Ev("getColor", classicColor(query.intensity))>>

\* C13 as stated: when the initialisation of the engine has failed (at its
\* creation, at the first preset load or at the audio connect) the type is still
\* milkdrop, a draw that follows does nothing, and an initButterchurn that follows
\* tries the initialisation again.
C13_FailedInitIsInert ==
    [][InLog("console.error")
          => /\ type = MILKDROP
             /\ lastCall'.op \in {"draw", "drawNoBuffer"} => log' = << >>
             /\ lastCall'.op = "initButterchurn"
                   => Count(log', "createVisualizer") + Count(log', "console.error") > 0]_vars

\* C14 as stated: after the teardown at the end of a session (clear) no timer
\* is live, the engine has no audio node bound and the canvas holds no WebGL
\* context.
C14_TeardownReleasesAll ==
    lastCall.op = "clear"
        => /\ Live = {}
           /\ HasEngine => Obj(butterchurnVisualizer).audioNode = "null"
           /\ canvas.contextType # "webgl"

\* C15: resizeCanvas and clear never throw, whatever the type and whether or
\* not there is a 2D context, an engine or a live timer; and a clear that directly
\* follows a clear changes no field and no timer: at most it fills the 2D
\* context with black again.
C15_ResizeClearSafe ==
    [][/\ lastCall'.op \in {"clear", "resizeCanvas"} => Count(log', "TypeError") = 0
       /\ lastCall.op = "clear" /\ lastCall'.op = "clear"
            => /\ UNCHANGED <<type, canvas, ctx, width, height, colorScheme,
                              audioContext, butterchurnAudioNode,
                              butterchurnVisualizer, currentPresetIndex,
                              autoRotateInterval, isAutoRotating, timers>>
               /\ \A k \in 1..Len(log') : log'[k].e = "fillRect"]_vars

C15_Witness ==
    /\ lastCall.op = "clear"
    /\ lastCall.repeat
    /\ type = MILKDROP
    /\ HasEngine
    /\ ~Has2d

\* C16: the canvas always has the stored width and height, and an engine,
\* whenever there is one, has them as its renderer size.
C16_SizesAgree ==
    /\ canvas.width = width
    /\ canvas.height = height
    /\ HasEngine => /\ Obj(butterchurnVisualizer).width = width
                    /\ Obj(butterchurnVisualizer).height = height

C16_Witness ==
    /\ lastCall.op = "resizeCanvas"
    /\ InLog("setRendererSize")
    /\ recreations > 0
    /\ HasEngine
    /\ Obj(butterchurnVisualizer).canvas = canvas.id
    /\ Obj(butterchurnVisualizer).width = 6
    /\ canvas.width = 6

\* the colours a log entry of a 2D draw carries, and the colours the renderer
\* of type t asks getColor for at that point under the given scheme
CarriedColors(ev) ==
    CASE ev.e = "sample" -> ev.a.colors
      [] ev.e \in {"strokeStyle", "shadowColor", "fillStyle"} -> <<ev.a>>
      [] OTHER -> << >>

SchemeColors(scheme, t, ev, bufferLength) ==
    CASE ev.e = "sample" ->
            SampleColors([colorScheme |-> scheme],
                         IF t \in Modes2D THEN RendererOf(t) ELSE "drawBars",
                         bufferLength, ev.a.i, 0)
      [] ev.e \in {"strokeStyle", "shadowColor", "fillStyle"} ->
            <<getColor([colorScheme |-> scheme], 0, 1, FullIntensity)>>
      [] OTHER -> << >>

\* C17: setColorScheme stores the scheme and changes nothing else (type,
\* canvas, contexts, engine, preset selection and timers stay, no call is made);
\* every colour of a draw in a 2D mode is the colour of the scheme stored at
\* that moment, so the draw right after setColorScheme(x) is drawn in x; and a
\* draw in milkdrop mode makes no call but the engine's render.
C17_SchemeOnly ==
    [][/\ lastCall'.op = "setColorScheme"
            => /\ colorScheme' = lastCall'.arg
               /\ log' = << >>
               /\ UNCHANGED <<type, canvas, ctx, width, height, audioContext,
                              butterchurnAudioNode, butterchurnVisualizer,
                              currentPresetIndex, autoRotateInterval,
                              isAutoRotating, timers>>
       /\ lastCall'.op \in {"draw", "drawNoBuffer"}
            => IF type' = MILKDROP
               THEN \A k \in 1..Len(log') : log'[k].e = "engine.render"
               ELSE \A k \in 1..Len(log') :
                       CarriedColors(log'[k]) =
                           SchemeColors(IF lastCall.op = "setColorScheme"
                                        THEN lastCall.arg ELSE colorScheme,
                                        type', log'[k], lastCall'.arg)]_vars

C17_Witness ==
    /\ lastCall.op = "draw"
    /\ type = "bars"
    /\ colorScheme = "fire"
    /\ \E k \in 1..Len(log) :
          log[k].e = "sample" /\ log[k].a.colors = <<Rgb(200, 0, 0)>>

\* the colour the last getColor call returned
Returned == log[1].a
AskedColor == lastCall.op = "getColor" /\ colorScheme \in Schemes

\* C18: under each of the five schemes, for every intensity the renderers pass
\* (every sample / 255 among them) and every index < total, the red, green and
\* blue values getColor returns lie in 0..255, and the rainbow hue in [0, 360).
C18_ChannelsInRange ==
    AskedColor
        => IF colorScheme = "rainbow"
           THEN /\ Returned.kind = "hsl"
                /\ 0 <= Returned.v[1]
                /\ Returned.v[1] < 360 * Returned.v[2]
           ELSE /\ Returned.kind = "rgb"
                /\ \A j \in 1..3 : Returned.v[j] \in 0..SAMPLE_MAX

C18_Witness ==
    /\ AskedColor
    /\ colorScheme = "fire"
    /\ query.intensity = SampleIntensity(SAMPLE_MAX)
    /\ Returned = Rgb(255, 100, 0)

\* c is floor(a + b * i): c <= a + b * i <= c + 1, which fixes c unless a + b * i
\* is a whole number (there the double arithmetic may fall one short), and c
\* is exact at intensity 0 and at intensity 1
IsFloor(c, a, b, i) ==
    /\ c * i.den <= a * i.den + b * i.num
    /\ a * i.den + b * i.num <= (c + 1) * i.den
    /\ i.num = 0 => c = a
    /\ i.num = i.den => c = a + b

\* C19: for intensity i classic returns (0, floor(150 i), floor(100 + 155 i)),
\* fire (floor(200 + 55 i), floor(100 i), 0), ocean (0, floor(200 i),
\* floor(150 + 105 i)), neon (0, floor(200 + 55 i), floor(100 i)) and rainbow
\* the hue 360 index / total with saturation 100 and lightness 50 + 20 i; index
\* and total change the result under rainbow only.
C19_Formulas ==
    AskedColor
        => LET c == Returned.v
               i == query.intensity
           IN  /\ colorScheme = "classic"
                     => /\ Returned.kind = "rgb"
                        /\ c[1] = 0
                        /\ IsFloor(c[2], 0, 150, i)
                        /\ IsFloor(c[3], 100, 155, i)
               /\ colorScheme = "fire"
                     => /\ Returned.kind = "rgb"
                        /\ IsFloor(c[1], 200, 55, i)
                        /\ IsFloor(c[2], 0, 100, i)
                        /\ c[3] = 0
               /\ colorScheme = "ocean"
                     => /\ Returned.kind = "rgb"
                        /\ c[1] = 0
                        /\ IsFloor(c[2], 0, 200, i)
                        /\ IsFloor(c[3], 150, 105, i)
               /\ colorScheme = "neon"
                     => /\ Returned.kind = "rgb"
                        /\ c[1] = 0
                        /\ IsFloor(c[2], 200, 55, i)
                        /\ IsFloor(c[3], 0, 100, i)
               /\ colorScheme = "rainbow"
                     => /\ Returned.kind = "hsl"
                        /\ c[1] * query.total = 360 * query.index * c[2]
                        /\ c[3] = 100
                        /\ c[4] * i.den = (50 * i.den + 20 * i.num) * c[5]
               /\ colorScheme # "rainbow"
                     => \A total \in 1..MaxTotal : \A index \in 0..(total - 1) :
                            getColor(Self, index, total, i) = Returned

C19_Witness ==
    /\ AskedColor
    /\ colorScheme = "classic"
    /\ query.intensity = SampleIntensity(SAMPLE_MAX)
    /\ query.index > 0
    /\ Returned = Rgb(0, 150, 255)

\* C20: with intensity and total fixed, the rainbow hue of a column is at most
\* the hue of every column to its right.
C20_HueMonotone ==
    AskedColor /\ colorScheme = "rainbow"
        => \A j \in query.index..(query.total - 1) :
              LET right == getColor(Self, j, query.total, query.intensity).v
              IN  Returned.v[1] * right[2] <= right[1] * Returned.v[2]

C20_Witness ==
    /\ AskedColor
    /\ colorScheme = "rainbow"
    /\ query.total = MaxTotal
    /\ query.index = 1
    /\ Returned.v[1] * MaxTotal = 360 * Returned.v[2]

\* the iterations of the renderer's loop in the last draw call, in order
IsSample(ev) == ev.e = "sample"
SampleEvents == SelectSeq(log, IsSample)
Drew(t) == lastCall.op = "draw" /\ type = t /\ ~InLog("TypeError")

\* ratios compared by cross-multiplication (denominators are positive)
RatEq(p, q) == p.num * q.den = q.num * p.den
RatLeq(p, q) == p.num * q.den <= q.num * p.den
RatSum(p, q) == Rat(p.num * q.den + q.num * p.den, p.den * q.den)

\* C21: in bars mode a draw of N samples fills, for every i < N, one rectangle
\* of height (sample[i] / 255) * height whose bottom edge is the bottom of the
\* canvas, in the colour getColor(i, N, sample[i] / 255); a sample of 0 gives a
\* rectangle of height 0.
C21_BarsColumns ==
    Drew("bars")
        => /\ Len(SampleEvents) = lastCall.arg
           /\ \A k \in 1..Len(SampleEvents) :
                 LET it == SampleEvents[k].a
                     sample == frame.data[k]
                 IN  /\ it.i = k - 1
                     /\ Len(it.shapes) = 1
                     /\ it.shapes[1].kind = "rect"
                     /\ RatEq(it.shapes[1].h, Rat(sample * height, SAMPLE_MAX))
                     /\ RatEq(RatSum(it.shapes[1].y, it.shapes[1].h), Rat(height, 1))
                     /\ it.colors = <<getColor(Self, k - 1, lastCall.arg,
                                               SampleIntensity(sample))>>
                     /\ sample = 0 => it.shapes[1].h.num = 0

C21_Witness ==
    /\ Drew("bars")
    /\ lastCall.arg = MaxLen
    /\ colorScheme = "rainbow"
    /\ frame.data[1] = 0
    /\ frame.data[MaxLen] = SAMPLE_MAX
    /\ RatEq(SampleEvents[MaxLen].a.shapes[1].h, Rat(height, 1))
    /\ RatEq(SampleEvents[MaxLen].a.shapes[1].y, Rat(0, 1))

\* C22 as stated: in bars mode the N columns divide the width into N equal
\* parts: column i spans from i * width / N to (i + 1) * width / N, so every
\* column lies within [0, width].
C22_ColumnsDivideWidth ==
    Drew("bars")
        => \A k \in 1..Len(SampleEvents) :
              LET column == SampleEvents[k].a.shapes[1]
              IN  /\ RatEq(column.x, Rat((k - 1) * width, lastCall.arg))
                  /\ RatEq(column.w, Rat(width, lastCall.arg))
                  /\ RatLeq(RatSum(column.x, column.w), Rat(width, 1))

\* the names of the calls of the last operation, in order
Names == [k \in 1..Len(log) |-> log[k].e]
DrewNothing(t) == Drew(t) /\ lastCall.arg = 0

\* C23 as stated: each of the four 2D renderers, given a buffer of length 0,
\* fills the black background and does nothing else.
C23_EmptyIsBackgroundOnly ==
    \A t \in Modes2D :
        DrewNothing(t) => Names = <<RendererOf(t), "background", "shadowBlur">>

\* C23 amended: given a buffer of length 0 no renderer draws a sample; bars and
\* spectrum fill the background and nothing else; oscilloscope also strokes,
\* plain and with glow, a path that holds the single point (width, height / 2);
\* circular also fills, plain and with glow, the centre disc of radius
\* min(width, height) / 30.
C23_EmptyDrawsNoSample ==
    \A t \in Modes2D :
        DrewNothing(t)
            => /\ Count(log, "sample") = 0
               /\ Names = CASE t \in {"bars", "spectrum"} ->
                                <<RendererOf(t), "background", "shadowBlur">>
                             [] t = "oscilloscope" ->
                                <<"drawOscilloscope", "background", "shadowBlur",
                                  "strokeStyle", "lineTo", "stroke",
                                  "shadowColor", "stroke">>
                             [] t = "circular" ->
                                <<"drawCircular", "background", "shadowBlur",
                                  "arc", "fillStyle", "fill",
                                  "shadowColor", "fill">>
               /\ t = "oscilloscope"
                     => /\ RatEq(log[5].a.x, Rat(width, 1))
                        /\ RatEq(log[5].a.y, Rat(height, 2))
               /\ t = "circular"
                     => /\ RatEq(log[4].a, Rat(Min(width, height), 30))
                        /\ log[6].a = 0
                        /\ log[8].a = 20

C23_Witness ==
    /\ DrewNothing("circular")
    /\ Count(log, "fill") = 2
    /\ log[5].a = Rgb(0, 150, 255)

\* the samples of a buffer, each moved to the nearest value of 0..255
Clamped(data) ==
    [k \in DOMAIN data |-> IF data[k] < 0 THEN 0
                           ELSE IF data[k] > SAMPLE_MAX THEN SAMPLE_MAX
                           ELSE data[k]]

\* C24 as stated: a 2D renderer does not throw on samples below 0 or above 255
\* and draws them as 0 and as 255: the frame drawn is the frame the clamped
\* buffer gives.
C24_OutOfRangeClamped ==
    lastCall.op = "draw" /\ type \in Modes2D
        => /\ ~InLog("TypeError")
           /\ log = draw(Self, Buffer(Clamped(frame.data)), lastCall.arg).log

\* an object that has nothing but what a renderer is given: the type, the
\* colour scheme, the size and a 2D context of the canvas in its initial state
FreshObject ==
    [type |-> type, colorScheme |-> colorScheme, width |-> width,
     height |-> height, butterchurnVisualizer |-> Null,
     ctx |-> <<[canvas |-> canvas.id, shadowBlur |-> 0]>>, log |-> << >>]

\* C25: a 2D draw issues the commands, with the parameters, that the same
\* type, colour scheme, buffer, length and size give on a context nothing was
\* drawn on before: the context is always left with shadow blur 0, the frame
\* starts with the black fill of the whole canvas, drawn without shadow, and
\* every stroke and fill follows an assignment of its style (and of its shadow
\* colour when it glows) made in the same call.
C25_FrameOfInputsOnly ==
    /\ Has2d => Obj(ctx).shadowBlur = 0
    /\ lastCall.op = "draw" /\ type # MILKDROP /\ ~InLog("TypeError")
         => /\ log = draw(FreshObject, frame, lastCall.arg).log
            /\ Names[2] = "background" /\ log[2].a = canvas.id
            /\ Names[3] = "shadowBlur" /\ log[3].a = 0
            /\ \A k \in 1..Len(log) :
                  /\ Names[k] = "stroke"
                        => \E j \in 1..(k - 1) : Names[j] = "strokeStyle"
                  /\ Names[k] = "fill"
                        => \E j \in 1..(k - 1) : Names[j] = "fillStyle"
                  /\ Names[k] \in {"stroke", "fill"} /\ log[k].a # 0
                        => Names[k - 1] = "shadowColor"
                  /\ Names[k] = "sample"
                        => /\ log[k].a.blur = 0
                           /\ Len(log[k].a.shapes) <= Len(log[k].a.colors)
                                 \/ type = "oscilloscope"

C25_Witness ==
    /\ Drew("oscilloscope")
    /\ lastCall.repeat
    /\ lastCall.arg = MaxLen
    /\ log[3].a = 0
    /\ log[Len(log)] = Ev("stroke", 10)

\* C26 as stated: loading a name that is not a key of the catalog does
\* nothing (the engine gets no loadPreset call, onPresetChange is not called, the
\* engine is as before); loading a key, with an engine present, makes exactly
\* one loadPreset call on the engine, with a blend time of BLEND_S seconds.
C26_UnknownPresetIsNoOp ==
    [][lastCall'.op = "setPreset" /\ lastCall'.arg # AUTO
          => IF lastCall'.arg \in PresetNames
             THEN HasEngine
                    => /\ Count(log', "engine.loadPreset") = 1
                       /\ Obj(butterchurnVisualizer').preset = lastCall'.arg
                       /\ Obj(butterchurnVisualizer').blend = BLEND_S
             ELSE /\ Count(log', "engine.loadPreset") = 0
                  /\ Count(log', "onPresetChange") = 0
                  /\ UNCHANGED butterchurnVisualizer]_vars

\* C27 as stated: setPreset('auto') itself loads no preset, so the engine shows
\* after the call what it showed before; setPreset(id) with a key of the
\* catalog loads id exactly once (the engine is handed id, once, and
\* onPresetChange reports it).
C27_AutoKeepsPinLoadsOnce ==
    [][lastCall'.op = "setPreset"
          => IF lastCall'.arg = AUTO
             THEN /\ Count(log', "engine.loadPreset") = 0
                  /\ UNCHANGED butterchurnVisualizer
             ELSE lastCall'.arg \in PresetNames
                    => /\ Count(log', "engine.loadPreset") = 1
                       /\ Count(log', "onPresetChange") = 1
                       /\ HasEngine'
                       /\ Obj(butterchurnVisualizer').preset = lastCall'.arg]_vars

\* a rotation timer comes due with the next step of time
TickDue == \E t \in DOMAIN timers : timers[t] + StepMs >= ROTATE_MS

\* the loadPreset calls of the last operation
IsLoadCall(ev) == ev.e = "loadPreset"
LoadCalls == SelectSeq(log, IsLoadCall)

\* C28: the stored preset index always lies within 0..|catalog|-1; a tick
\* calls loadPreset once, with the key at the index it stored; and whenever a
\* tick is due, every key of the catalog can be the one it selects, the one
\* selected last included.
C28_TickSelectsAnyKey ==
    /\ currentPresetIndex \in 0..(NumPresets - 1)
    /\ lastCall.op = "time" /\ lastCall.arg > 0
          => /\ Len(LoadCalls) = lastCall.arg
             /\ \A i \in 1..Len(LoadCalls) : LoadCalls[i].a \in PresetNames
             /\ LoadCalls[Len(LoadCalls)].a = presetKeys[currentPresetIndex]
    /\ TickDue
          => \A k \in DOMAIN presetKeys :
                ENABLED (AdvanceTime /\ currentPresetIndex' = k)

\* a tick has selected the last key of the catalog, which the engine now
\* shows, and the next tick is due
C28_Witness ==
    /\ TickDue
    /\ HasEngine
    /\ currentPresetIndex = NumPresets - 1
    /\ Obj(butterchurnVisualizer).preset = presetKeys[currentPresetIndex]
    /\ sinceAuto.loads > 0

\* C29 as stated: after every initButterchurn(audioContext, audioNode) made in
\* milkdrop mode that did not fail, also when an engine existed before the
\* call, the engine is connected to that node and uses that audio context.
C29_EngineFollowsLatestAudio ==
    ( /\ lastCall.op = "initButterchurn"
      /\ type = MILKDROP
      /\ Count(log, "console.error") = 0 )
        => /\ HasEngine
           /\ Obj(butterchurnVisualizer).audioNode = butterchurnAudioNode
           /\ Obj(butterchurnVisualizer).audioContext = audioContext

\* the place of the first event e in the calls l
FirstAt(l, e) == CHOOSE i \in 1..Len(l) : l[i].e = e /\ \A j \in 1..(i - 1) : l[j].e # e

\* a step that leaves milkdrop mode while a rotation timer is armed
LeavesMilkdropRotating ==
    /\ type = MILKDROP
    /\ type' # MILKDROP
    /\ autoRotateInterval # 0

\* C30 as stated: when setType leaves milkdrop mode with a rotation timer
\* running, the timer is cancelled before the canvas is replaced.
C30_TimerStoppedBeforeReplace ==
    [][LeavesMilkdropRotating
          => /\ Count(log', "clearInterval") = 1
             /\ Count(log', "replaceChild") = 1
             /\ FirstAt(log', "clearInterval") < FirstAt(log', "replaceChild")]_vars

\* C30, amended: when setType leaves milkdrop mode with a rotation timer
\* running, the canvas is replaced first and the timer is cancelled next,
\* within the same call: the call loads no preset, and when it returns no
\* timer is live and no handle is stored.
C30_TimerStoppedWithinTransition ==
    [][LeavesMilkdropRotating
          => /\ Count(log', "clearInterval") = 1
             /\ Count(log', "replaceChild") = 1
             /\ FirstAt(log', "replaceChild") < FirstAt(log', "clearInterval")
             /\ Count(log', "loadPreset") = 0
             /\ timers' = <<>>
             /\ autoRotateInterval' = 0]_vars

\* setType has left milkdrop mode and cancelled the timer that was running
C30_Witness ==
    /\ lastCall.op = "setType"
    /\ type # MILKDROP
    /\ InLog("replaceChild")
    /\ InLog("clearInterval")
    /\ Live = {}

\* C31 as stated: while the selection is 'auto', every initButterchurn made in
\* milkdrop mode leaves a rotation timer live (so ticks go on loading
\* presets), also when the driver had stopped with clear() before.  Calls
\* that fail, and engines whose initialisation had failed, are left aside.
C31_RotationSurvivesRestart ==
    ( /\ lastCall.op = "initButterchurn"
      /\ type = MILKDROP
      /\ isAutoRotating
      /\ Count(log, "console.error") = 0
      /\ HasEngine
      /\ Obj(butterchurnVisualizer).audioNode # "null" )
        => /\ Live # {}
           /\ autoRotateInterval \in Live

\* C32: in every state whose type is not milkdrop, a value that names no
\* mode included, the 2D context is present, and a draw call made there gets
\* past its first use of the context (it paints the background); the
\* visualizer is constructed in milkdrop mode without a 2D context.
C32_ContextPresentOutsideMilkdrop ==
    /\ lastCall.op = "new" => type = MILKDROP /\ ~Has2d
    /\ type # MILKDROP
          => /\ Has2d
             /\ canvas.contextType = "2d"
             /\ DrawCall => Count(log, "background") = 1

\* a frame drawn with a buffer under a type that names no mode, entered from
\* milkdrop mode after the mode had been 2D and milkdrop before
C32_Witness ==
    /\ lastCall.op = "draw"
    /\ type = UnknownType
    /\ InLog("background")
    /\ recreations >= 3

\* C33 as stated: a rotation timer is live only while the type is milkdrop.
C33_TimerOnlyInMilkdrop == Live # {} => type = MILKDROP

\* C34: a rotation timer is live only while the selection is 'auto'; at most
\* one timer is live and it is the one whose handle is stored.
C34_TimerOnlyWhileAuto ==
    /\ Live # {} => isAutoRotating
    /\ Live = (IF autoRotateInterval = 0 THEN {} ELSE {autoRotateInterval})

\* a preset has been pinned while a timer ran, and the timer is gone
C34_Witness ==
    /\ lastCall.op = "setPreset"
    /\ lastCall.arg \in PresetNames
    /\ InLog("clearInterval")
    /\ ~isAutoRotating
    /\ Live = {}

\* C35 as stated: once setPreset has named a key of the catalog, and until
\* setPreset is called again, every call that creates the engine (setType into
\* milkdrop mode, or initButterchurn where the creation had been put off)
\* and does not fail leaves the engine showing that key.
C35_PinnedPresetSurvives ==
    [][( /\ pinnedId \in PresetNames
         /\ lastCall'.op # "setPreset"
         /\ Count(log', "createVisualizer") = 1
         /\ Count(log', "console.error") = 0 )
          => /\ HasEngine'
             /\ Obj(butterchurnVisualizer').preset = pinnedId]_vars

\* C36: under every interleaving of the driver's events and the returns of
\* its awaits at most one frame callback is pending, it is the one whose
\* handle animationId holds, and no event, a display refresh included, calls
\* draw more than once.
C36_OneFramePending ==
    /\ Cardinality(app.pending) <= 1
    /\ app.pending \subseteq {app.animationId}
    /\ app.draws <= 1

\* a display refresh has drawn a frame and requested the next one, after a
\* second startVisualization call had been made
C36_Witness ==
    /\ lastCall.op = "frame"
    /\ app.draws = 1
    /\ app.pending # {}
    /\ app.starts >= 2

\* C37 as stated: also when startVisualization is called again while a call
\* is waiting for getUserMedia, at most one media stream has running tracks
\* at any time, every stream with running tracks is the one mediaStream
\* holds, and once stopVisualization has run no stream has running tracks.
C37_NoStreamLost ==
    /\ Cardinality(app.liveStreams) <= 1
    /\ app.liveStreams \subseteq {app.mediaStream}
    /\ app.stopRan => app.liveStreams = {}

\* C38 as stated: while the visualization runs on a file (no microphone
\* stream having been obtained), the source node that is connected to the
\* analyser and bound to the visualizer is the one created from the current
\* audio element, the file uploaded last.
C38_SourceOfCurrentFile ==
    (app.audioSourceType = "file" /\ app.isRunning /\ app.streams = 0)
        => /\ app.fileSource = app.audioElement
           /\ FileName(app.audioElement) \in app.connected
           /\ butterchurnAudioNode = FileName(app.audioElement)

\* C39: under every interleaving of the driver's events and the returns of
\* its awaits, isRunning implies that the audio context and the analyser are
\* present; animate never uses a null analyser; and an event that has drawn
\* leaves isRunning true and the analyser present.
C39_RunningHasAnalyser ==
    /\ app.isRunning => app.audioContext # 0 /\ app.analyser # 0
    /\ ~app.nullAnalyser
    /\ app.draws > 0 => app.isRunning /\ app.analyser # 0

\* a frame is drawn on a second audio context, the first having been closed
\* by stopVisualization
C39_Witness ==
    /\ lastCall.op = "frame"
    /\ app.draws = 1
    /\ app.contexts >= 2
    /\ app.analyser = app.audioContext

====
